---- MODULE Spec2Model ----
(***************************************************************************)
(* Authorization-server core of purduehackers/identities.                  *)
(*                                                                         *)
(* The module models src/src/lib.rs (client registry, JwtIssuer, DbIssuer, *)
(* JwtAuthorizer, DbAuthorizer, OAuthEndpoint) and src/api/authorize.rs    *)
(* (the GET/POST /authorize handler with its AuthorizeEndpoint and         *)
(* PostSolicitor).  The relational store is two tables (auth_grant,        *)
(* auth_token); the key-value store and the passport table are the state   *)
(* the consent gate is specified to read.                                  *)
(***************************************************************************)
EXTENDS Integers, Sequences, FiniteSets, TLC

VARIABLES
    now,          \* Utc::now(), in seconds since 2024-01-01T00:00:00Z
    issuer,       \* the Issuer the deployed endpoint holds: "JwtIssuer" or "DbIssuer"
    auth_grant,   \* Grant table: sequence of rows, row i has id i
    auth_token,   \* Token table: sequence of rows, row i has id i
    pc,           \* per invocation: position inside the operation it runs
    local,        \* per invocation: the locals that live across a storage step
    codesOut,     \* codes returned by Authorizer::authorize
    extractLog,   \* results of DbAuthorizer::extract, in order of return
    tokensOut,    \* tokens returned by Issuer::issue, with the Grant and the time
    recovered,    \* the latest recover_token call and its result
    passport,     \* passport table: owner id -> "absent" | "inactive" | "active"
    kv,           \* key-value store: owner id -> the Presence Signal, if any
    taps,         \* the Presence Signals written so far, in order
    decideLog,    \* what each POST /authorize invocation did
    served,       \* the latest request answered by a handler, and the answer
    refreshed,    \* the latest refresh / recover_refresh call and its result
    failed        \* the latest call in which a storage operation failed, and how it ended

gateVars == <<passport, kv, taps, decideLog>>
webVars == <<served, refreshed, failed>>
vars == <<now, issuer, auth_grant, auth_token, pc, local, codesOut, extractLog,
          tokensOut, recovered, passport, kv, taps, decideLog, served, refreshed,
          failed>>

----------------------------------------------------------------------------
(* Bounds of the model *)

MaxGrants == 2        \* rows DbAuthorizer::authorize may insert
MaxTokens == 1        \* rows DbIssuer::issue may insert
MaxExtracts == 3      \* DbAuthorizer::extract calls recorded
MaxSigned == 1        \* signed strings JwtIssuer and JwtAuthorizer may hand out
MaxDecides == 2       \* POST /authorize invocations recorded
MaxTaps == 1          \* Presence Signals the tap recorder writes

----------------------------------------------------------------------------
(* Option / Result values *)

None == [some |-> FALSE]
Some(x) == [some |-> TRUE, val |-> x]
Ok(x) == [tag |-> "Ok", val |-> x]
Err == [tag |-> "Err"]
Panic == [tag |-> "Panic"]

Range(f) == {f[i] : i \in DOMAIN f}

----------------------------------------------------------------------------
(* Client registry: lib.rs VALID_CLIENTS and client_registry() *)

VALID_CLIENTS ==
    << [client_id |-> "dashboard",
        url |-> "https://dash.purduehackers.com/api/callback",
        scope |-> <<"user:read">>],
       [client_id |-> "passports",
        url |-> "https://passports.purduehackers.com/callback",
        scope |-> <<"user:read", "user">>],
       [client_id |-> "authority",
        url |-> "authority://callback",
        scope |-> <<"admin:read", "admin">>],
       [client_id |-> "auth-test",
        url |-> "https://id-auth.purduehackers.com/api/auth/callback/purduehackers-id",
        scope |-> <<"user:read">>],
       [client_id |-> "vulcan-auth",
        url |-> "https://auth.purduehackers.com/source/oauth/callback/purduehackers-id/",
        scope |-> <<"user:read">>],
       [client_id |-> "shad-moe",
        url |-> "https://auth.shad.moe/source/oauth/callback/purduehackers-id/",
        scope |-> <<"user:read">>],
       [client_id |-> "shquid",
        url |-> "https://www.imsqu.id/auth/callback/purduehackers-id",
        scope |-> <<"user:read">>] >>

\* VALID_CLIENTS.iter().find(|c| c.client_id == aud): the first entry that matches
FindClient(aud) ==
    LET hits == {i \in DOMAIN VALID_CLIENTS : VALID_CLIENTS[i].client_id = aud}
    IN  IF hits = {} THEN None
        ELSE Some(VALID_CLIENTS[CHOOSE i \in hits : \A j \in hits : i <= j])

\* VALID_CLIENTS.iter().map(|c| c.client_id): the audiences the validator accepts
ClientIds == {VALID_CLIENTS[i].client_id : i \in DOMAIN VALID_CLIENTS}

----------------------------------------------------------------------------
(* Conversions *)

\* A scope string is its space-delimited tokens in order; a Scope is the set of
\* tokens (oxide_auth keeps a set).  Scope::from_str / scope.parse()
ScopeFromStr(s) == Range(s)

\* Scope -> String (Display / serde): the tokens joined in some order
ScopeToString(S) ==
    CHOOSE q \in [1..Cardinality(S) -> S] : Range(q) = S

\* str::parse::<i32>() on the owner identifiers the model uses: decimal digits
\* parse (leading zeros allowed), anything else is an error
DecimalValue == [s \in {"1", "01", "2"} |-> IF s = "2" THEN 2 ELSE 1]
ParseI32(s) == IF s \in DOMAIN DecimalValue THEN Ok(DecimalValue[s]) ELSE Err

\* i32::to_string(): the canonical decimal form
I32ToString(n) == CHOOSE s \in {"1", "2"} : DecimalValue[s] = n

----------------------------------------------------------------------------
(* Time: chrono's Utc::now() + Months::new(1) *)

Day == 24 * 60 * 60

IsLeap(y) == (y % 4 = 0 /\ y % 100 # 0) \/ y % 400 = 0

DaysInMonth(y, m) ==
    IF m = 2 THEN (IF IsLeap(y) THEN 29 ELSE 28)
    ELSE IF m \in {4, 6, 9, 11} THEN 30 ELSE 31

RECURSIVE CivilFrom(_, _, _)
\* the calendar date that lies d days after the first of month m of year y
CivilFrom(y, m, d) ==
    IF d < DaysInMonth(y, m) THEN [year |-> y, month |-> m, day |-> d + 1]
    ELSE CivilFrom(IF m = 12 THEN y + 1 ELSE y, IF m = 12 THEN 1 ELSE m + 1,
                   d - DaysInMonth(y, m))

RECURSIVE DaysBefore(_, _)
\* days from 2024-01-01 to the first of month m of year y
DaysBefore(y, m) ==
    IF y = 2024 /\ m = 1 THEN 0
    ELSE LET py == IF m = 1 THEN y - 1 ELSE y
             pm == IF m = 1 THEN 12 ELSE m - 1
         IN  DaysBefore(py, pm) + DaysInMonth(py, pm)

\* DateTime + Months::new(1): same day of the next month, clamped to that
\* month's last day; the time of day is kept
AddMonth(t) ==
    LET c == CivilFrom(2024, 1, t \div Day)
        y == IF c.month = 12 THEN c.year + 1 ELSE c.year
        m == IF c.month = 12 THEN 1 ELSE c.month + 1
        d == IF c.day > DaysInMonth(y, m) THEN DaysInMonth(y, m) ELSE c.day
    IN  (DaysBefore(y, m) + d - 1) * Day + (t % Day)

----------------------------------------------------------------------------
(* The stores the consent gate is specified to read *)

BadgeIds == {"1", "2", "3"}

\* owner 1 is provisioned, owner 2 exists but is not activated, owner 3 is unknown
InitGate ==
    /\ passport = [b \in BadgeIds |->
                      IF b = "1" THEN "active" ELSE IF b = "2" THEN "inactive" ELSE "absent"]
    /\ kv = [b \in BadgeIds |-> None]
    /\ taps = <<>>
    /\ decideLog = {}

\* no request answered, no refresh attempted, no storage operation failed
InitWeb ==
    /\ served = None
    /\ refreshed = None
    /\ failed = None

----------------------------------------------------------------------------
(* Inputs of the relational strategy *)

Procs == {"p1", "p2"}            \* independent invocations
OwnerIds == {"1", "01", "yippee"}
InputClients == {"passports"}
\* Codes and tokens are 32-character random strings.  The n-th string that
\* Alphanumeric.sample_string returns is written n; 0 is a string that is
\* presented but that no call ever returns (a collision with a guess or with
\* an earlier string has negligible probability).
Codes == 0..MaxGrants
Tokens == 0..MaxTokens

RegisteredScope(client) == ScopeFromStr(FindClient(client).val.scope)

\* the Grants an authorization flow hands to the Code Authorizer: a registered
\* client with its registered redirect URI, a non-empty scope within the
\* client's scope, and the code lifetime of ten minutes
InputScopes == {{"user:read"}, {"user:read", "user"}}
GrantInputs ==
    UNION {{[owner_id |-> o, client_id |-> c, scope |-> sc,
             redirect_uri |-> FindClient(c).val.url, until |-> now + 600] :
               o \in OwnerIds,
               sc \in {x \in InputScopes : x \subseteq RegisteredScope(c)}} :
           c \in InputClients}

\* Alphanumeric.sample_string(&mut rand::thread_rng(), 32)
FreshCode == Cardinality(codesOut) + 1
FreshToken == Cardinality(tokensOut) + 1

----------------------------------------------------------------------------
(* DbAuthorizer *)

\* DbAuthorizer::authorize: insert a Grant row with a fresh code, return the code
DbAuthorize(p, grant) ==
    /\ pc[p] = "idle"
    /\ Len(auth_grant) < MaxGrants
    /\ LET owner == ParseI32(grant.owner_id)
       IN  IF owner.tag # "Ok"
           THEN \* expect("failed to parse owner_id as int"): the invocation dies
                UNCHANGED <<auth_grant, codesOut>>
           ELSE LET code == FreshCode IN
                  /\ auth_grant' = Append(auth_grant,
                        [id |-> Len(auth_grant) + 1,
                         owner_id |-> owner.val,
                         client_id |-> grant.client_id,
                         redirect_uri |-> grant.redirect_uri,
                         until |-> grant.until,
                         scope |-> ScopeToString(grant.scope),
                         code |-> Some(code)])
                  /\ codesOut' = codesOut \cup {code}
    /\ UNCHANGED <<gateVars, webVars, now, issuer, auth_token, pc, local, extractLog, tokensOut, recovered>>

\* the Grant that extract / recover_token rebuild from a Grant row
GrantOfRow(g, until) ==
    [owner_id |-> I32ToString(g.owner_id),
     client_id |-> g.client_id,
     scope |-> ScopeFromStr(g.scope),
     redirect_uri |-> g.redirect_uri,
     until |-> until]

\* am.code = Set(None); am.save(): UPDATE auth_grant SET code = NULL WHERE id = g.id
ClearCodeAndExpiry(rows, id) ==
    [i \in DOMAIN rows |-> IF rows[i].id = id
                           THEN [rows[i] EXCEPT !.code = None, !.until = 0]
                           ELSE rows[i]]
ClearCodeBuggy(rows, id) == rows
ClearCode(rows, id) ==
    [i \in DOMAIN rows |-> IF rows[i].id = id THEN [rows[i] EXCEPT !.code = None]
                           ELSE rows[i]]

\* DbAuthorizer::extract, first storage step: SELECT .. WHERE code = token, one row
DbExtractFind(p, token) ==
    /\ pc[p] = "idle"
    /\ Len(extractLog) < MaxExtracts
    /\ LET hits == {i \in DOMAIN auth_grant : auth_grant[i].code = Some(token)}
       IN  IF hits = {}
           THEN /\ extractLog' = Append(extractLog,
                                        [code |-> token, res |-> None])
                /\ UNCHANGED <<pc, local>>
           ELSE \E i \in hits :
                  /\ local' = [local EXCEPT ![p] = [token |-> token, g |-> auth_grant[i]]]
                  /\ pc' = [pc EXCEPT ![p] = "save"]
                  /\ UNCHANGED extractLog
    /\ UNCHANGED <<gateVars, webVars, now, issuer, auth_grant, auth_token, codesOut, tokensOut, recovered>>

\* DbAuthorizer::extract, second storage step: clear the code column of the row
\* that was read, then return the Grant built from the row as it was read
DbExtractSave(p) ==
    /\ pc[p] = "save"
    /\ auth_grant' = ClearCode(auth_grant, local[p].g.id)
    /\ extractLog' = Append(extractLog,
           [code |-> local[p].token,
            res |-> Some(GrantOfRow(local[p].g, local[p].g.until))])
    /\ pc' = [pc EXCEPT ![p] = "idle"]
    /\ local' = [local EXCEPT ![p] = None]
    /\ UNCHANGED <<gateVars, webVars, now, issuer, auth_token, codesOut, tokensOut, recovered>>

\* the Grants that extract has returned so far
Redeemed == {extractLog[i].res.val : i \in {j \in DOMAIN extractLog : extractLog[j].res.some}}

----------------------------------------------------------------------------
(* DbIssuer *)

\* DbIssuer::issue: find one Grant row by owner_id and client_id, insert a Token
\* row that references it, return the token
DbIssue(p, grant) ==
    /\ pc[p] = "idle"
    /\ Len(auth_token) < MaxTokens
    /\ LET owner == ParseI32(grant.owner_id)
           hits == {i \in DOMAIN auth_grant :
                       /\ owner.tag = "Ok"
                       /\ auth_grant[i].owner_id = owner.val
                       /\ auth_grant[i].client_id = grant.client_id}
       IN  \E i \in hits : LET token == FreshToken IN
              /\ auth_token' = Append(auth_token,
                    [id |-> Len(auth_token) + 1,
                     grant_id |-> auth_grant[i].id,
                     token |-> token,
                     until |-> AddMonth(now)])
              /\ tokensOut' = tokensOut \cup
                    {[token |-> token, grant |-> grant, at |-> now,
                      until |-> AddMonth(now), refresh |-> None]}
    /\ UNCHANGED <<gateVars, webVars, now, issuer, auth_grant, pc, local, codesOut, extractLog, recovered>>

\* DbIssuer::recover_token as a function of the store: the Token row by token,
\* its parent Grant row, and the Grant rebuilt with the token's expiry
DbRecoverTokenAnyRow(t) ==
    LET hits == {i \in DOMAIN auth_token : auth_token[i].token = t}
    IN  IF hits = {}
        THEN IF auth_grant = <<>> THEN {Ok(None)}
             ELSE {Ok(Some(GrantOfRow(auth_grant[1], auth_grant[1].until)))}
        ELSE {Ok(Some(GrantOfRow(auth_grant[auth_token[i].grant_id], auth_token[i].until))) :
                 i \in hits}
DbRecoverToken(t) ==
    LET hits == {i \in DOMAIN auth_token : auth_token[i].token = t}
    IN  IF hits = {} THEN {Ok(None)}
        ELSE {Ok(Some(GrantOfRow(auth_grant[auth_token[i].grant_id], auth_token[i].until))) :
                 i \in hits}

DbRecover(p, t) ==
    /\ pc[p] = "idle"
    /\ \E res \in DbRecoverToken(t) :
          recovered' = Some([token |-> t, at |-> now, res |-> res])
    /\ UNCHANGED <<gateVars, webVars, now, issuer, auth_grant, auth_token, pc, local, codesOut, extractLog, tokensOut>>

----------------------------------------------------------------------------
(* The relational strategy, one caller at a time and with concurrent callers *)

InitDb ==
    /\ now = 0
    /\ issuer = "DbIssuer"
    /\ auth_grant = <<>>
    /\ auth_token = <<>>
    /\ pc = [p \in Procs |-> "idle"]
    /\ local = [p \in Procs |-> None]
    /\ codesOut = {}
    /\ extractLog = <<>>
    /\ tokensOut = {}
    /\ recovered = None
    /\ InitGate
    /\ InitWeb

\* what a client can present: a string it was given, or the guess 0
PresentedCodes == (codesOut \cup {0}) \cap Codes
PresentedTokens == ({r.token : r \in tokensOut} \cup {0}) \cap Tokens

\* sequential use: an operation starts only when no other one is in flight
Alone(p) == \A q \in Procs \ {p} : pc[q] = "idle"

NextSeq ==
    \/ \E p \in Procs, g \in GrantInputs : Alone(p) /\ DbAuthorize(p, g)
    \/ \E p \in Procs, c \in PresentedCodes : Alone(p) /\ DbExtractFind(p, c)
    \/ \E p \in Procs : Alone(p) /\ DbExtractSave(p)
    \/ \E p \in Procs, g \in Redeemed : Alone(p) /\ DbIssue(p, g)
    \/ \E p \in Procs, t \in PresentedTokens : Alone(p) /\ DbRecover(p, t)

SpecSeq == InitDb /\ [][NextSeq]_vars

\* concurrent use: the storage steps of different invocations interleave
NextConc ==
    \/ \E p \in Procs, g \in GrantInputs : DbAuthorize(p, g)
    \/ \E p \in Procs, c \in PresentedCodes : DbExtractFind(p, c)
    \/ \E p \in Procs : DbExtractSave(p)
    \/ \E p \in Procs, g \in Redeemed : DbIssue(p, g)
    \/ \E p \in Procs, t \in PresentedTokens : DbRecover(p, t)

SpecConc == InitDb /\ [][NextConc]_vars

----------------------------------------------------------------------------
(* Signed tokens: jsonwebtoken encode / decode with the deployment's JWK *)

\* Validation::new(..): the leeway, in seconds, that the validator allows on exp
Leeway == 60

\* encode(&Header::new(ES256), &claims, &jwk.key.to_encoding_key()): the claims
\* and a signature made with the JWK over exactly these claims
Encode(claims) == [claims |-> claims, sig |-> [key |-> "JWK", over |-> claims]]

\* get_validator(iss): the issuer, the audiences and the leeway to validate with
get_validator_any_issuer(iss) ==
    [iss |-> {"id", "id-grant"}, aud |-> ClientIds, leeway |-> Leeway]
get_validator(iss) ==
    [iss |-> {IF iss = "Id" THEN "id" ELSE "id-grant"},
     aud |-> ClientIds,
     leeway |-> Leeway]

\* decode::<Claims>(t, &get_jwk().key.to_decoding_key(), &validation) at time `time`
Decode(t, validation, time) ==
    IF ~(t.sig.key = "JWK" /\ t.sig.over = t.claims) THEN Err
    ELSE IF t.claims.exp < time - validation.leeway THEN Err
    ELSE IF t.claims.iss \notin validation.iss THEN Err
    ELSE IF t.claims.aud \notin validation.aud THEN Err
    ELSE Ok(t.claims)

\* the Claims that JwtIssuer::issue builds from a Grant at time `time`
IssueClaimsSwapped(grant, time) ==
    [sub |-> grant.client_id, exp |-> AddMonth(time), iat |-> time, iss |-> "id",
     aud |-> grant.owner_id, scope |-> ScopeToString(grant.scope)]
IssueClaims(grant, time) ==
    [sub |-> grant.owner_id,
     exp |-> AddMonth(time),
     iat |-> time,
     iss |-> "id",
     aud |-> grant.client_id,
     scope |-> ScopeToString(grant.scope)]

\* JwtIssuer::issue
JwtIssue(p, grant) ==
    /\ pc[p] = "idle"
    /\ Cardinality(tokensOut) + Cardinality(codesOut) < MaxSigned
    /\ tokensOut' = tokensOut \cup
          {[token |-> Encode(IssueClaims(grant, now)), grant |-> grant, at |-> now,
            until |-> AddMonth(now), refresh |-> None]}
    /\ UNCHANGED <<gateVars, webVars, now, issuer, auth_grant, auth_token, pc, local, codesOut,
                   extractLog, recovered>>

\* JwtIssuer::recover_token at time `time`
JwtRecoverTokenTrusting(t, time) ==
    LET d == Decode(t, get_validator("Id"), time)
        from == {r.grant.redirect_uri : r \in {x \in tokensOut : x.token = t}}
    IN  IF d.tag # "Ok" THEN Err
        ELSE LET c == FindClient(d.val.aud)
             IN  IF ~c.some THEN Err
                 ELSE Ok(Some([owner_id |-> d.val.sub,
                               client_id |-> d.val.aud,
                               scope |-> ScopeFromStr(d.val.scope),
                               until |-> d.val.exp,
                               redirect_uri |-> IF from = {} THEN c.val.url
                                                ELSE CHOOSE u \in from : TRUE]))
JwtRecoverToken(t, time) ==
    LET d == Decode(t, get_validator("Id"), time)
    IN  IF d.tag # "Ok" THEN Err
        ELSE LET c == FindClient(d.val.aud)
             IN  IF ~c.some THEN Err
                 ELSE Ok(Some([owner_id |-> d.val.sub,
                               client_id |-> d.val.aud,
                               scope |-> ScopeFromStr(d.val.scope),
                               until |-> d.val.exp,
                               redirect_uri |-> c.val.url]))

JwtRecover(p, t) ==
    /\ pc[p] = "idle"
    /\ recovered' = Some([token |-> t, at |-> now, res |-> JwtRecoverToken(t, now)])
    /\ UNCHANGED <<gateVars, webVars, now, issuer, auth_grant, auth_token, pc, local, codesOut,
                   extractLog, tokensOut>>

\* JwtAuthorizer::authorize: a signed code with issuer "id-grant" that expires
\* with the Grant
JwtAuthorizeAsId(p, grant) ==
    /\ pc[p] = "idle"
    /\ Cardinality(tokensOut) + Cardinality(codesOut) < MaxSigned
    /\ codesOut' = codesOut \cup
          {Encode([sub |-> grant.owner_id, exp |-> grant.until, iat |-> now,
                   iss |-> "id", aud |-> grant.client_id,
                   scope |-> ScopeToString(grant.scope)])}
    /\ UNCHANGED <<gateVars, webVars, now, issuer, auth_grant, auth_token, pc, local,
                   extractLog, tokensOut, recovered>>
JwtAuthorize(p, grant) ==
    /\ pc[p] = "idle"
    /\ Cardinality(tokensOut) + Cardinality(codesOut) < MaxSigned
    /\ codesOut' = codesOut \cup
          {Encode([sub |-> grant.owner_id, exp |-> grant.until, iat |-> now,
                   iss |-> "id-grant", aud |-> grant.client_id,
                   scope |-> ScopeToString(grant.scope)])}
    /\ UNCHANGED <<gateVars, webVars, now, issuer, auth_grant, auth_token, pc, local, extractLog,
                   tokensOut, recovered>>

----------------------------------------------------------------------------
(* Inputs of the signed strategy, and time *)

\* the Grants the token endpoint hands to the Issuer: what DbAuthorizer::extract
\* returns for a registered client
IssueClients == {"dashboard", "passports"}
IssueInputs ==
    {[owner_id |-> I32ToString(o), client_id |-> c, scope |-> RegisteredScope(c),
      redirect_uri |-> FindClient(c).val.url, until |-> now + 600] :
        o \in {1, 2}, c \in IssueClients}

\* what a holder of a signed string can make of it without the JWK: the same
\* signature over changed claims, or the same claims signed with another key
Forgeries(t) ==
    {[t EXCEPT !.claims.exp = @ + 365 * Day],
     [t EXCEPT !.claims.aud = "evil"],
     [t EXCEPT !.claims.iss = "id"],
     [t EXCEPT !.sig = [key |-> "attacker", over |-> t.claims]]}

\* the strings presented as bearer tokens: the tokens and codes handed out, and
\* what can be made of them
PresentedJwts ==
    LET got == {r.token : r \in tokensOut} \cup codesOut
    IN  got \cup UNION {Forgeries(t) : t \in got}

TimeOf(y, m, d) == (DaysBefore(y, m) + d - 1) * Day

\* the instants at which invocations start: in a 31-day month, at the end of
\* one (the next month is shorter) and in a 30-day month
StartTimes ==
    {TimeOf(2024, 1, 1), TimeOf(2024, 1, 31) + 12 * 3600, TimeOf(2024, 4, 1)}

\* the later instants that matter to a token: 30 and 31 days after it was
\* issued, just after its expiry, and the instants around the validator's leeway
Instants ==
    UNION {{r.at + 30 * Day, r.at + 31 * Day, r.until + 1,
            r.until + Leeway, r.until + Leeway + 1} : r \in tokensOut}

\* time passes between invocations
Tick(t) ==
    /\ t > now
    /\ now' = t
    /\ UNCHANGED <<gateVars, webVars, issuer, auth_grant, auth_token, pc, local, codesOut, extractLog,
                   tokensOut, recovered>>

InitJwt ==
    /\ now \in StartTimes
    /\ issuer = "JwtIssuer"
    /\ auth_grant = <<>>
    /\ auth_token = <<>>
    /\ pc = [p \in Procs |-> "idle"]
    /\ local = [p \in Procs |-> None]
    /\ codesOut = {}
    /\ extractLog = <<>>
    /\ tokensOut = {}
    /\ recovered = None
    /\ InitGate
    /\ InitWeb

NextJwt ==
    \/ \E p \in Procs, g \in IssueInputs : JwtIssue(p, g)
    \/ \E p \in Procs, g \in IssueInputs : JwtAuthorize(p, g)
    \/ \E p \in Procs, t \in PresentedJwts : JwtRecover(p, t)
    \/ \E t \in Instants : Tick(t)

SpecJwt == InitJwt /\ [][NextJwt]_vars

----------------------------------------------------------------------------
(* Signed tokens for Grants whose redirect URI is not the registered string *)

\* the Grants handed to JwtIssuer::issue with the redirect URI as registered, or
\* with a redirect URI that the registry's semantic comparison
\* (RegisteredUrl::Semantic) takes for the registered one but that differs from
\* it as a string
RedirectInputs ==
    {[g EXCEPT !.redirect_uri = u] :
        g \in {x \in IssueInputs : x.client_id = "dashboard" /\ x.owner_id = "1"},
        u \in {"https://dash.purduehackers.com/api/callback",
               "https://dash.purduehackers.com:443/api/callback"}}

NextRedirect ==
    \/ \E p \in Procs, g \in RedirectInputs : JwtIssue(p, g)
    \/ \E p \in Procs, t \in PresentedJwts : JwtRecover(p, t)
    \/ \E t \in Instants : Tick(t)

SpecRedirect == InitJwt /\ [][NextRedirect]_vars

----------------------------------------------------------------------------
(* Either issuer strategy over time: a deployment holds one Issuer *)

InitExpiry ==
    /\ now \in StartTimes
    /\ issuer \in {"JwtIssuer", "DbIssuer"}
    /\ auth_grant = <<>>
    /\ auth_token = <<>>
    /\ pc = [p \in Procs |-> "idle"]
    /\ local = [p \in Procs |-> None]
    /\ codesOut = {}
    /\ extractLog = <<>>
    /\ tokensOut = {}
    /\ recovered = None
    /\ InitGate
    /\ InitWeb

NextExpiry ==
    \/ \E t \in Instants : Tick(t)
    \/ issuer = "JwtIssuer" /\ \E p \in Procs, g \in IssueInputs : JwtIssue(p, g)
    \/ issuer = "JwtIssuer" /\ \E p \in Procs, t \in PresentedJwts : JwtRecover(p, t)
    \/ issuer = "DbIssuer" /\ \E p \in Procs, g \in GrantInputs :
          Alone(p) /\ DbAuthorize(p, g)
    \/ issuer = "DbIssuer" /\ \E p \in Procs, c \in PresentedCodes :
          Alone(p) /\ DbExtractFind(p, c)
    \/ issuer = "DbIssuer" /\ \E p \in Procs :
          Alone(p) /\ DbExtractSave(p)
    \/ issuer = "DbIssuer" /\ \E p \in Procs, g \in Redeemed :
          Alone(p) /\ DbIssue(p, g)
    \/ issuer = "DbIssuer" /\ \E p \in Procs, t \in PresentedTokens :
          Alone(p) /\ DbRecover(p, t)

SpecExpiry == InitExpiry /\ [][NextExpiry]_vars

----------------------------------------------------------------------------
(* Storage failures in DbAuthorizer and DbIssuer *)

\* Result::expect(..): the value of Ok, a panic of the invocation on Err
ExpectLenient(r) == r
Expect(r) == IF r.tag = "Ok" THEN r ELSE Panic

\* the calls whose storage operations all come before anything is written or
\* returned: db() or the insert of DbAuthorizer::authorize, db() or the lookup
\* of DbAuthorizer::extract, db(), the lookup or the insert of DbIssuer::issue,
\* db() or a lookup of DbIssuer::recover_token
FailingOps == {"authorize", "extract.find", "issue", "recover_token"}

\* one of these calls, with a storage operation that fails
DbFail(p, op) ==
    /\ pc[p] = "idle"
    /\ failed' = Some([op |-> op, ended |-> Expect(Err), returned |-> None])
    /\ UNCHANGED <<gateVars, served, refreshed, now, issuer, auth_grant, auth_token,
                   pc, local, codesOut, extractLog, tokensOut, recovered>>

\* DbAuthorizer::extract whose lookup found the row and whose
\* am.save(&db).await.expect("db save to work") fails
DbExtractSaveFail(p) ==
    /\ pc[p] = "save"
    /\ LET saved == Expect(Err)
           grant == GrantOfRow(local[p].g, local[p].g.until)
       IN  IF saved = Panic
           THEN /\ failed' = Some([op |-> "extract.save", ended |-> Panic,
                                   returned |-> None])
                /\ UNCHANGED extractLog
           ELSE /\ failed' = Some([op |-> "extract.save", ended |-> Ok(Some(grant)),
                                   returned |-> Some(grant)])
                /\ extractLog' = Append(extractLog,
                                        [code |-> local[p].token, res |-> Some(grant)])
    /\ pc' = [pc EXCEPT ![p] = "idle"]
    /\ local' = [local EXCEPT ![p] = None]
    /\ UNCHANGED <<gateVars, served, refreshed, now, issuer, auth_grant, auth_token,
                   codesOut, tokensOut, recovered>>

NextFail ==
    \/ \E p \in Procs, g \in GrantInputs : Alone(p) /\ DbAuthorize(p, g)
    \/ \E p \in Procs, c \in PresentedCodes : Alone(p) /\ DbExtractFind(p, c)
    \/ \E p \in Procs : Alone(p) /\ DbExtractSave(p)
    \/ \E p \in Procs, g \in Redeemed : Alone(p) /\ DbIssue(p, g)
    \/ \E p \in Procs, op \in FailingOps : Alone(p) /\ DbFail(p, op)
    \/ \E p \in Procs : Alone(p) /\ DbExtractSaveFail(p)

SpecFail == InitDb /\ [][NextFail]_vars

----------------------------------------------------------------------------
(* Refresh: Issuer::refresh and Issuer::recover_refresh of both issuers *)

\* JwtIssuer::refresh
JwtRefresh(t, grant) == Err

\* JwtIssuer::recover_refresh
JwtRecoverRefresh(t) == Err

\* DbIssuer::refresh
DbRefresh(t, grant) == Err

\* DbIssuer::recover_refresh
DbRecoverRefreshAsToken(t) ==
    IF \E i \in DOMAIN auth_token : auth_token[i].token = t
    THEN CHOOSE r \in DbRecoverToken(t) : TRUE
    ELSE Err
DbRecoverRefresh(t) == Err

\* the strings a client can present as a refresh token: no issued token carries
\* one, so it presents what it holds, or a guess
PresentedRefresh ==
    IF issuer = "JwtIssuer" THEN PresentedJwts ELSE PresentedTokens

\* the deployed Issuer's refresh, called for a Grant an issued token belongs to
Refresh(p, t, grant) ==
    /\ pc[p] = "idle"
    /\ refreshed' = Some([op |-> "refresh", token |-> t, grant |-> grant,
                          res |-> IF issuer = "JwtIssuer" THEN JwtRefresh(t, grant)
                                  ELSE DbRefresh(t, grant)])
    /\ UNCHANGED <<gateVars, served, failed, now, issuer, auth_grant, auth_token,
                   pc, local, codesOut, extractLog, tokensOut, recovered>>

\* the deployed Issuer's recover_refresh
RecoverRefresh(p, t) ==
    /\ pc[p] = "idle"
    /\ refreshed' = Some([op |-> "recover_refresh", token |-> t, grant |-> None,
                          res |-> IF issuer = "JwtIssuer" THEN JwtRecoverRefresh(t)
                                  ELSE DbRecoverRefresh(t)])
    /\ UNCHANGED <<gateVars, served, failed, now, issuer, auth_grant, auth_token,
                   pc, local, codesOut, extractLog, tokensOut, recovered>>

\* the Grants of the persisted rows, as extract rebuilds them
RowGrants == {GrantOfRow(auth_grant[i], auth_grant[i].until) : i \in DOMAIN auth_grant}

InitRefresh ==
    /\ now = 0
    /\ issuer \in {"JwtIssuer", "DbIssuer"}
    /\ auth_grant = <<>>
    /\ auth_token = <<>>
    /\ pc = [p \in Procs |-> "idle"]
    /\ local = [p \in Procs |-> None]
    /\ codesOut = {}
    /\ extractLog = <<>>
    /\ tokensOut = {}
    /\ recovered = None
    /\ InitGate
    /\ InitWeb

NextRefresh ==
    \/ issuer = "JwtIssuer" /\ \E p \in Procs, g \in IssueInputs : JwtIssue(p, g)
    \/ issuer = "DbIssuer" /\ \E p \in Procs, g \in GrantInputs : DbAuthorize(p, g)
    \/ issuer = "DbIssuer" /\ \E p \in Procs, g \in RowGrants : DbIssue(p, g)
    \/ \E p \in Procs, t \in PresentedRefresh, r \in tokensOut : Refresh(p, t, r.grant)
    \/ \E p \in Procs, t \in PresentedRefresh : RecoverRefresh(p, t)

SpecRefresh == InitRefresh /\ [][NextRefresh]_vars

----------------------------------------------------------------------------
(* Resource check: oauth_user over OAuthEndpoint (JwtIssuer, DbAuthorizer) *)

\* OAuthEndpoint::response: the answer the endpoint builds for a Template
OAuthEndpointResponse(kind) ==
    IF kind.authorization_error THEN Err
    ELSE IF kind.access_token_error THEN Err
    ELSE IF kind.status \in {"Ok", "Redirect"}
         THEN Ok([status |-> 200, headers |-> {}, body |-> "Empty"])
    ELSE Err

\* ResourceFlow::execute on a request with `Authorization: Bearer t`: recover the
\* Grant with the endpoint's Issuer; a failing Issuer is endpoint.error(..), a
\* missing, expired or under-scoped Grant is answered with
\* endpoint.response(unauthorized Template)
ResourceFlowExecute(t, scopes, time) ==
    LET rec == JwtRecoverToken(t, time)
        denied == [tag |-> "Err",
                   val |-> OAuthEndpointResponse(
                              [authorization_error |-> FALSE,
                               access_token_error |-> FALSE,
                               status |-> "Unauthorized"])]
    IN  IF rec.tag # "Ok" THEN [tag |-> "Err", val |-> Err]
        ELSE IF ~rec.val.some THEN denied
        ELSE IF rec.val.val.until < time THEN denied
        ELSE IF scopes # {} /\ \A sc \in scopes : ~(sc \subseteq rec.val.val.scope)
             THEN denied
        ELSE Ok(rec.val.val)

\* map_error_to_readable, as wrap_error! applies it to a handler's result
map_error_to_readable(r) ==
    IF r.tag = "Ok" THEN r.val
    ELSE [status |-> 500, headers |-> {}, body |-> "Server Error"]

\* oauth_user(req, scopes) at time `time`, for a request whose bearer token is t
oauth_user(t, scopes, time) ==
    LET user == ResourceFlowExecute(t, scopes, time)
    IN  IF user.tag # "Ok" THEN Err
        ELSE LET id == ParseI32(user.val.owner_id)
             IN  IF id.tag = "Ok" THEN Ok(id.val) ELSE Panic

\* a protected handler: it asks oauth_user and returns its error with `?`
OAuthUser(p, t, scopes) ==
    /\ pc[p] = "idle"
    /\ LET res == oauth_user(t, scopes, now)
       IN  served' = Some([op |-> "oauth_user", token |-> t, at |-> now,
                           rec |-> JwtRecoverToken(t, now),
                           result |-> res,
                           response |-> IF res.tag = "Err"
                                        THEN Some(map_error_to_readable(res))
                                        ELSE None])
    /\ UNCHANGED <<gateVars, refreshed, failed, now, issuer, auth_grant, auth_token,
                   pc, local, codesOut, extractLog, tokensOut, recovered>>

\* the scopes a protected handler asks for: none, or the scope every client has
ResourceScopes == {{}, {{"user:read"}}}

NextResource ==
    \/ \E p \in Procs, g \in IssueInputs : JwtIssue(p, g)
    \/ \E p \in Procs, t \in PresentedJwts, sc \in ResourceScopes : OAuthUser(p, t, sc)
    \/ \E t \in Instants : Tick(t)

SpecResource == InitJwt /\ [][NextResource]_vars

----------------------------------------------------------------------------
(* POST /authorize: handler with AuthorizeEndpoint and PostSolicitor *)

\* the tap recorder, an external process: it writes the readiness flag of a badge
Tap(id, ready) ==
    /\ Len(taps) < MaxTaps
    /\ kv' = [kv EXCEPT ![id] = Some(ready)]
    /\ taps' = Append(taps, [id |-> id, ready |-> ready])
    /\ UNCHANGED <<webVars, now, issuer, auth_grant, auth_token, pc, local, codesOut,
                   extractLog, tokensOut, recovered, passport, decideLog>>

\* PostSolicitor::check_consent
check_consent(req) == [tag |-> "Authorized", owner |-> "yippee"]

\* AuthorizeEndpoint::registrar: the ClientMap of client_registry() binds the
\* request's client and redirect URI
BoundRedirect(req) ==
    LET c == FindClient(req.client_id)
    IN  c.some /\ c.val.url = req.redirect_uri

\* AuthorizeEndpoint::default / authorizer_mut: an AuthMap built for this
\* invocation.  Its codes are 16 random bytes, written -1, -2, ..: never a
\* string of DbAuthorizer.  The map lives in the invocation's memory.
AuthMapAuthorize(grant) == -(Cardinality(decideLog) + 1)

\* AuthorizeEndpoint::response
AuthorizeEndpointResponse == Panic

\* the readiness signals written for a badge so far
ReadyWrites(id) == Cardinality({i \in DOMAIN taps : taps[i].id = id /\ taps[i].ready})

\* handler, POST branch: AuthorizationFlow::prepare(AuthorizeEndpoint::default())
\* .execute(req): bind client and redirect URI, ask the solicitor, on Authorized
\* let the authorizer issue a code, then build the redirect with
\* endpoint.response()
HandlerPost(p, req) ==
    /\ pc[p] = "idle"
    /\ Cardinality(decideLog) < MaxDecides
    /\ UNCHANGED <<webVars, now, issuer, auth_grant, auth_token, pc, local, codesOut,
                   extractLog, tokensOut, recovered, passport, kv, taps>>
    /\ LET consent == check_consent(req)
           grant == [owner_id |-> consent.owner,
                     client_id |-> req.client_id,
                     redirect_uri |-> req.redirect_uri,
                     scope |-> RegisteredScope(req.client_id),
                     until |-> now + 600]
           seen == [owner |-> passport[req.id], written |-> ReadyWrites(req.id),
                    before |-> kv[req.id], after |-> kv'[req.id]]
       IN  IF ~BoundRedirect(req)
           THEN decideLog' = decideLog \cup
                   {[n |-> Cardinality(decideLog) + 1, req |-> req, seen |-> seen,
                     consent |-> None, code |-> None, grant |-> None,
                     outcome |-> Err]}
           ELSE IF consent.tag = "Authorized"
           THEN decideLog' = decideLog \cup
                   {[n |-> Cardinality(decideLog) + 1, req |-> req, seen |-> seen,
                     consent |-> Some(consent),
                     code |-> Some(AuthMapAuthorize(grant)),
                     grant |-> Some(grant),
                     outcome |-> AuthorizeEndpointResponse]}
           ELSE decideLog' = decideLog \cup
                   {[n |-> Cardinality(decideLog) + 1, req |-> req, seen |-> seen,
                     consent |-> Some(consent), code |-> None, grant |-> None,
                     outcome |-> AuthorizeEndpointResponse]}

\* the consent submissions: a registered client with its redirect URI, with
\* another redirect URI, and an unregistered client; a scope the client is
\* registered for or one it is not; any badge; allow or not
PostRequests ==
    {[client_id |-> c[1], redirect_uri |-> c[2], scope |-> sc,
      response_type |-> "code", id |-> b, allow |-> a] :
        c \in {<<"dashboard", "https://dash.purduehackers.com/api/callback">>,
               <<"dashboard", "https://evil.example/callback">>,
               <<"evil", "https://evil.example/callback">>},
        sc \in {{"user:read"}, {"admin"}},
        b \in BadgeIds, a \in BOOLEAN}

\* what the Client Registry is specified to validate: the client exists, the
\* redirect URI is the registered one, the scope is within the registered scope
RegistryAccepts(req) ==
    /\ FindClient(req.client_id).some
    /\ FindClient(req.client_id).val.url = req.redirect_uri
    /\ req.scope \subseteq RegisteredScope(req.client_id)

\* the codes the authorizer of some POST /authorize invocation has issued
DecideCodes == {d.code.val : d \in {e \in decideLog : e.code.some}}

InitDecide ==
    /\ now = 0
    /\ issuer = "JwtIssuer"
    /\ auth_grant = <<>>
    /\ auth_token = <<>>
    /\ pc = [p \in Procs |-> "idle"]
    /\ local = [p \in Procs |-> None]
    /\ codesOut = {}
    /\ extractLog = <<>>
    /\ tokensOut = {}
    /\ recovered = None
    /\ InitGate
    /\ InitWeb

\* consent submissions, taps, and later invocations that redeem a code through
\* OAuthEndpoint's DbAuthorizer.  No step of this specification writes a Grant
\* row, so extract never gets past its lookup.
NextDecide ==
    \/ \E b \in BadgeIds, r \in BOOLEAN : Tap(b, r)
    \/ \E p \in Procs, req \in PostRequests : HandlerPost(p, req)
    \/ \E p \in Procs, c \in DecideCodes : DbExtractFind(p, c)

SpecDecide == InitDecide /\ [][NextDecide]_vars

----------------------------------------------------------------------------
(* GET /authorize: handle_get *)

\* generic_endpoint(solicitor).authorization_flow().execute(req), up to the
\* solicitor: the registry of client_registry() binds client and redirect URI,
\* the response type must be "code", and the registry's negotiate step fixes the
\* scope of the pre-grant, which for a ClientMap is the client's registered scope
generic_endpoint(req) ==
    IF ~BoundRedirect(req) THEN Err
    ELSE IF req.response_type # "code" THEN Err
    ELSE Ok([client_id |-> req.client_id,
             redirect_uri |-> req.redirect_uri,
             scope |-> RegisteredScope(req.client_id)])

\* ResponseCompat::redirect(url): status 303 and the Location header
Redirect(url) == [status |-> 303, location |-> url]

\* the FnSolicitor of handle_get: a redirect to the login surface that carries
\* the pre-grant's client_id, redirect_uri and scope and response_type "code"
LoginRedirect(pg) ==
    Redirect([base |-> "https://id.purduehackers.com/authorize",
              client_id |-> pg.client_id,
              redirect_uri |-> pg.redirect_uri,
              scope |-> pg.scope,
              response_type |-> "code"])

\* handle_get
HandleGet(p, req) ==
    /\ pc[p] = "idle"
    /\ UNCHANGED <<gateVars, refreshed, failed, now, issuer, auth_grant, auth_token,
                   pc, local, codesOut, extractLog, tokensOut, recovered>>
    /\ LET pg == generic_endpoint(req)
       IN  served' = Some([op |-> "GET", req |-> req,
                           before |-> kv[req.id], after |-> kv'[req.id],
                           codes |-> codesOut' \ codesOut,
                           rows |-> Len(auth_grant') - Len(auth_grant),
                           response |-> IF pg.tag = "Ok" THEN Ok(LoginRedirect(pg.val))
                                        ELSE Err])

\* the initiation requests: the clients dashboard and passports with their
\* registered redirect URI, dashboard with a foreign one, an unregistered
\* client; a scope within or outside the registered scope; a response type
GetRequests ==
    {[client_id |-> c[1], redirect_uri |-> c[2], scope |-> sc,
      response_type |-> rt, id |-> "1", allow |-> FALSE] :
        c \in {<<"dashboard", "https://dash.purduehackers.com/api/callback">>,
               <<"passports", "https://passports.purduehackers.com/callback">>,
               <<"dashboard", "https://evil.example/callback">>,
               <<"evil", "https://evil.example/callback">>},
        sc \in {{"user:read"}, {"admin"}},
        rt \in {"code", "token"}}

NextInitiate ==
    \/ \E b \in BadgeIds, r \in BOOLEAN : Tap(b, r)
    \/ \E p \in Procs, req \in GetRequests : HandleGet(p, req)

SpecInitiate == InitDecide /\ [][NextInitiate]_vars

----------------------------------------------------------------------------
(* The Client Registry: client_registry() and lookups in it *)

\* ClientMap::register_client(Client::public(client_id, url, scope.parse())):
\* the entry is stored under the client id and replaces an entry with that id
register_client_first_scope(clients, c) ==
    [id \in DOMAIN clients \cup {c.client_id} |->
        IF id = c.client_id
        THEN [redirect_uri |-> c.url, default_scope |-> {c.scope[1]}]
        ELSE clients[id]]
register_client(clients, c) ==
    [id \in DOMAIN clients \cup {c.client_id} |->
        IF id = c.client_id
        THEN [redirect_uri |-> c.url, default_scope |-> ScopeFromStr(c.scope)]
        ELSE clients[id]]

RECURSIVE RegisterFirst(_)
\* the ClientMap after the loop of client_registry has run over the first n
\* entries of VALID_CLIENTS
RegisterFirst(n) ==
    IF n = 0 THEN [id \in {} |-> None]
    ELSE register_client(RegisterFirst(n - 1), VALID_CLIENTS[n])

\* client_registry()
client_registry == RegisterFirst(Len(VALID_CLIENTS))

\* the registry's entry for a client identifier, if it has one
RegistryLookup(id) ==
    IF id \in DOMAIN client_registry THEN Some(client_registry[id]) ELSE None

\* the client identifiers a request can name: the registered ones, an
\* unregistered one, a registered one in another case, and the empty string
LookupIds == ClientIds \cup {"evil", "Dashboard", ""}

\* a handler builds the registry and looks a client up
Lookup(p, id) ==
    /\ pc[p] = "idle"
    /\ served' = Some([op |-> "lookup", id |-> id, result |-> RegistryLookup(id)])
    /\ UNCHANGED <<gateVars, refreshed, failed, now, issuer, auth_grant, auth_token,
                   pc, local, codesOut, extractLog, tokensOut, recovered>>

\* Grants for every registered client, as the token endpoint hands them to
\* the Issuer
RegistryIssueInputs ==
    {[owner_id |-> "1", client_id |-> c, scope |-> RegisteredScope(c),
      redirect_uri |-> FindClient(c).val.url, until |-> now + 600] : c \in ClientIds}

\* registry lookups by handlers, and the audience lookup of token recovery for
\* tokens of every client
NextRegistry ==
    \/ \E p \in Procs, id \in LookupIds : Lookup(p, id)
    \/ \E p \in Procs, g \in RegistryIssueInputs : JwtIssue(p, g)
    \/ \E p \in Procs, r \in tokensOut : JwtRecover(p, r.token)

SpecRegistry == InitDecide /\ [][NextRegistry]_vars

----------------------------------------------------------------------------
(* JwtAuthorizer::extract, and signed codes next to signed tokens *)

\* JwtAuthorizer::extract at time `time`
JwtExtractTokenOnce(t, time) ==
    LET d == Decode(t, get_validator("IdGrant"), time)
    IN  IF d.tag # "Ok" THEN Err
        ELSE IF \E i \in DOMAIN extractLog : extractLog[i].code = t THEN Ok(None)
        ELSE Ok(Some([owner_id |-> d.val.sub, client_id |-> d.val.aud,
                      scope |-> ScopeFromStr(d.val.scope), until |-> d.val.exp,
                      redirect_uri |-> FindClient(d.val.aud).val.url]))
JwtExtractToken(t, time) ==
    LET d == Decode(t, get_validator("IdGrant"), time)
    IN  IF d.tag # "Ok" THEN Err
        ELSE LET c == FindClient(d.val.aud)
             IN  IF ~c.some THEN Err
                 ELSE Ok(Some([owner_id |-> d.val.sub,
                               client_id |-> d.val.aud,
                               scope |-> ScopeFromStr(d.val.scope),
                               until |-> d.val.exp,
                               redirect_uri |-> c.val.url]))

\* a call of JwtAuthorizer::extract; the log keeps the string, the time and
\* the Result
JwtExtract(p, t) ==
    /\ pc[p] = "idle"
    /\ Len(extractLog) < MaxExtracts
    /\ extractLog' = Append(extractLog,
                            [code |-> t, at |-> now, res |-> JwtExtractToken(t, now)])
    /\ UNCHANGED <<gateVars, webVars, now, issuer, auth_grant, auth_token, pc, local,
                   codesOut, tokensOut, recovered>>

\* the signed strings handed out: tokens of JwtIssuer, codes of JwtAuthorizer
SignedOut == {r.token : r \in tokensOut} \cup codesOut

\* the Grants signed here: one owner, each of two registered clients
SignedInputs == {g \in IssueInputs : g.owner_id = "1"}

\* the instants that matter to a signed code: its expiry, and just beyond the
\* validator's leeway
CodeInstants ==
    UNION {{c.claims.exp, c.claims.exp + Leeway + 1} : c \in codesOut}

NextSigned ==
    \/ \E p \in Procs, g \in SignedInputs : JwtIssue(p, g)
    \/ \E p \in Procs, g \in SignedInputs : JwtAuthorize(p, g)
    \/ \E p \in Procs, t \in SignedOut : JwtRecover(p, t)
    \/ \E p \in Procs, t \in SignedOut : JwtExtract(p, t)
    \/ \E t \in CodeInstants : Tick(t)

SpecSigned == InitDecide /\ [][NextSigned]_vars

----------------------------------------------------------------------------
(* Claims about the relational strategy *)

\* C1: in sequential use, after DbAuthorizer::authorize returned code c, the
\* first extract(c) returns a Grant and every later extract(c) returns absent,
\* whatever calls on other codes happen in between.
C1_FirstExtractOnly ==
    \A i \in DOMAIN extractLog :
        extractLog[i].code \in codesOut =>
            (extractLog[i].res.some <=>
                \A j \in 1..(i - 1) : extractLog[j].code # extractLog[i].code)

\* C1 witness: a code was redeemed, another issued code was redeemed after it,
\* and then the first code was presented again and came back absent
C1_Witness ==
    /\ Len(extractLog) = 3
    /\ {extractLog[1].code, extractLog[2].code} \subseteq codesOut
    /\ extractLog[1].code # extractLog[2].code
    /\ extractLog[3].code = extractLog[1].code
    /\ extractLog[1].res.some /\ extractLog[2].res.some
    /\ ~extractLog[3].res.some

\* C2: two concurrent extract calls for the same code never both return a Grant.
C2_AtMostOneRedemption ==
    \A i, j \in DOMAIN extractLog :
        (i # j /\ extractLog[i].code = extractLog[j].code) =>
            ~(extractLog[i].res.some /\ extractLog[j].res.some)

\* C7: a token that DbIssuer::issue returned for a redeemed Grant G recovers to a
\* Grant with the owner, client and scope of G.
C7_DbRoundTrip ==
    recovered.some =>
        \A r \in tokensOut :
            r.token = recovered.val.token =>
                /\ recovered.val.res.tag = "Ok"
                /\ recovered.val.res.val.some
                /\ recovered.val.res.val.val.owner_id = r.grant.owner_id
                /\ recovered.val.res.val.val.client_id = r.grant.client_id
                /\ recovered.val.res.val.val.scope = r.grant.scope

----------------------------------------------------------------------------
(* Claims about the token issuers *)

\* the recover_token call that returned last, if it returned a Grant
RecoveredGrant ==
    recovered.some /\ recovered.val.res.tag = "Ok" /\ recovered.val.res.val.some

\* the signature of a signed string was made with the JWK over its claims
SignatureVerifies(t) == t.sig.key = "JWK" /\ t.sig.over = t.claims

\* C8: a token that JwtIssuer::issue returned for a Grant G recovers, before it
\* expires, to a Grant with the owner, client and scope of G.
C8_JwtRoundTrip ==
    recovered.some =>
        \A r \in tokensOut :
            (r.token = recovered.val.token /\ recovered.val.at < r.until) =>
                /\ RecoveredGrant
                /\ recovered.val.res.val.val.owner_id = r.grant.owner_id
                /\ recovered.val.res.val.val.client_id = r.grant.client_id
                /\ recovered.val.res.val.val.scope = r.grant.scope

\* C8 witness: a token was recovered 30 days after it was issued, a day before
\* it expires, and the Grant came back
C8_Witness ==
    /\ RecoveredGrant
    /\ \E r \in tokensOut :
          /\ r.token = recovered.val.token
          /\ recovered.val.at = r.at + 30 * Day
          /\ recovered.val.at < r.until
          /\ recovered.val.res.val.val.owner_id = r.grant.owner_id

C10_RejectedAfter31Days ==
    recovered.some =>
        \A r \in tokensOut :
            (r.token = recovered.val.token /\ recovered.val.at = r.at + 31 * Day) =>
                ~RecoveredGrant

\* C11: both issuers set a token's expiry to exactly the issue time plus 30
\* days, for every issue time.
C11_ExpiryIs30Days ==
    \A r \in tokensOut : r.until = r.at + 30 * Day

\* C17: a Grant recovered from a signed token carries the redirect URI that the
\* registry holds for the token's audience, also when the Grant the token was
\* issued for carried another one.
C17_RedirectFromRegistry ==
    RecoveredGrant =>
        /\ recovered.val.res.val.val.redirect_uri =
              FindClient(recovered.val.token.claims.aud).val.url
        /\ \A r \in tokensOut :
              (/\ r.token = recovered.val.token
               /\ r.grant.redirect_uri # FindClient(r.grant.client_id).val.url) =>
                  recovered.val.res.val.val.redirect_uri # r.grant.redirect_uri

\* C17 witness: a token issued for a Grant with a redirect URI other than the
\* registered string was recovered
C17_Witness ==
    /\ RecoveredGrant
    /\ \E r \in tokensOut :
          /\ r.token = recovered.val.token
          /\ r.grant.redirect_uri # FindClient(r.grant.client_id).val.url
          /\ recovered.val.res.val.val.redirect_uri = FindClient(r.grant.client_id).val.url

\* C18: for both issuers refresh and recover_refresh fail for every input, and
\* every issued token carries no refresh token.
C18_NoRefresh ==
    /\ refreshed.some => refreshed.val.res = Err
    /\ \A r \in tokensOut : r.refresh = None

\* C18 witness: a token was issued and then presented to recover_refresh, which
\* failed
C18_Witness ==
    /\ refreshed.some
    /\ refreshed.val.op = "recover_refresh"
    /\ refreshed.val.token \in {r.token : r \in tokensOut}
    /\ refreshed.val.res = Err
    /\ issuer = "DbIssuer"

\* C20: a call of DbAuthorizer or DbIssuer in which a storage operation fails
\* ends the invocation without a result: no code, Grant or token is returned,
\* nothing is written, and the call is not taken up again.
C20_FailedCallReturnsNothing ==
    [][failed' # failed =>
          /\ failed'.val.ended = Panic
          /\ failed'.val.returned = None
          /\ codesOut' = codesOut
          /\ extractLog' = extractLog
          /\ tokensOut' = tokensOut
          /\ recovered' = recovered
          /\ auth_grant' = auth_grant
          /\ auth_token' = auth_token
          /\ \A p \in Procs : pc'[p] = "idle"]_vars

\* C20 witness: the clearing of a code failed after the lookup had found the
\* row; the code is still in the table and no Grant was returned for it
C20_Witness ==
    /\ failed.some
    /\ failed.val.op = "extract.save"
    /\ failed.val.ended = Panic
    /\ \E i \in DOMAIN auth_grant : auth_grant[i].code.some
    /\ extractLog = <<>>

\* C12: a resource request whose bearer token recovers to no Grant is answered
\* 401 with a challenge header; otherwise the caller gets the owner identifier
\* of the recovered Grant.
C12_UnauthorizedOrOwner ==
    (served.some /\ served.val.op = "oauth_user") =>
        IF served.val.rec.tag = "Ok" /\ served.val.rec.val.some
        THEN served.val.result.tag = "Ok"
             /\ I32ToString(served.val.result.val) = served.val.rec.val.val.owner_id
        ELSE /\ served.val.response.some
             /\ served.val.response.val.status = 401
             /\ "WWW-Authenticate" \in served.val.response.val.headers

----------------------------------------------------------------------------
(* Claims about POST /authorize *)

\* C3: Decide issues a code only if the owner record exists and is activated
\* and this invocation consumed a Presence Signal with ready = true for the
\* owner.
C3_CodeOnlyWhenPresent ==
    \A d \in decideLog :
        d.code.some =>
            /\ d.seen.owner = "active"
            /\ d.seen.before = Some(TRUE)
            /\ d.seen.after = None

\* C4: with ready = true written once for an activated owner, two consent
\* submissions for that owner yield exactly one Authorized.
C4_ExactlyOneAuthorized ==
    \A o \in BadgeIds :
        LET ds == {d \in decideLog : d.req.id = o /\ d.consent.some /\ d.seen.written = 1}
        IN  (passport[o] = "active" /\ ReadyWrites(o) = 1 /\ Cardinality(ds) = 2) =>
                Cardinality({d \in ds : d.consent.val.tag = "Authorized"}) = 1

\* C5: the owner that an Authorized decision carries, and the owner of the Grant
\* handed to the Code Authorizer, is the id of the request that was decided.
C5_OwnerIsRequestId ==
    \A d \in decideLog :
        (d.consent.some /\ d.consent.val.tag = "Authorized") =>
            /\ d.consent.val.owner = d.req.id
            /\ d.grant.val.owner_id = d.req.id

\* C6: a code issued by Decide is redeemable by a later, independent
\* invocation: the first extract of it returns its Grant.
C6_CodeRedeemableLater ==
    \A i \in DOMAIN extractLog :
        (/\ extractLog[i].code \in DecideCodes
         /\ \A j \in 1..(i - 1) : extractLog[j].code # extractLog[i].code) =>
            extractLog[i].res.some

\* C13: after a gate evaluation that had a Presence Signal to read (the owner
\* is activated and an entry for the owner is in the store), whatever its
\* outcome, the entry for the owner is absent.
C13_SignalReadOnce ==
    \A d \in decideLog :
        (d.consent.some /\ d.seen.owner = "active" /\ d.seen.before.some) =>
            d.seen.after = None

\* C14: for an owner record that exists but is not activated the gate fails
\* with OwnerNotActivated and never authorizes, Presence Signal or not.
C14_InactiveOwnerRefused ==
    \A d \in decideLog :
        (d.consent.some /\ d.seen.owner = "inactive") =>
            /\ d.consent.val.tag = "OwnerNotActivated"
            /\ ~d.code.some

\* C15: a submission whose allow flag is false is Denied and gets no code;
\* Authorized is returned only when the allow flag is true.
C15_DeniedWithoutAllow ==
    \A d \in decideLog :
        d.consent.some =>
            /\ (~d.req.allow /\ d.seen.before = Some(TRUE) /\ d.seen.owner = "active")
                  => (d.consent.val.tag = "Denied" /\ ~d.code.some)
            /\ d.consent.val.tag = "Authorized" => d.req.allow

\* C16: a submission that the Client Registry is to refuse (client not
\* registered, redirect URI not the registered one, scope outside the registered
\* scope) gets no code, writes no Grant row and consumes no Presence Signal.
C16_RefusedByRegistry ==
    \A d \in decideLog :
        ~RegistryAccepts(d.req) =>
            /\ ~d.code.some
            /\ ~d.grant.some
            /\ auth_grant = <<>>
            /\ d.seen.after = d.seen.before

----------------------------------------------------------------------------
(* Claims about the Client Registry *)

\* C21: client identifiers are unique in the static list; the registry maps a
\* registered identifier to exactly the redirect URI and scope of its entry and
\* has nothing for any other identifier; the audience lookup of token recovery
\* yields the redirect URI of the one entry with that identifier.
C21_RegistryExact ==
    /\ \A i, j \in DOMAIN VALID_CLIENTS :
          VALID_CLIENTS[i].client_id = VALID_CLIENTS[j].client_id => i = j
    /\ (served.some /\ served.val.op = "lookup") =>
          LET hits == {i \in DOMAIN VALID_CLIENTS :
                          VALID_CLIENTS[i].client_id = served.val.id}
          IN  IF hits = {} THEN served.val.result = None
              ELSE \A i \in hits :
                     served.val.result =
                        Some([redirect_uri |-> VALID_CLIENTS[i].url,
                              default_scope |-> Range(VALID_CLIENTS[i].scope)])
    /\ RecoveredGrant =>
          \A i \in DOMAIN VALID_CLIENTS :
              VALID_CLIENTS[i].client_id = recovered.val.res.val.val.client_id =>
                  recovered.val.res.val.val.redirect_uri = VALID_CLIENTS[i].url

\* C21 witness: the client with a two-word scope was looked up and found, and
\* a token of the last client of the list was recovered
C21_Witness ==
    /\ served.some
    /\ served.val.op = "lookup"
    /\ served.val.id = "passports"
    /\ served.val.result.some
    /\ served.val.result.val.default_scope = {"user:read", "user"}
    /\ RecoveredGrant
    /\ recovered.val.res.val.val.client_id = "shquid"

----------------------------------------------------------------------------
(* Claims about signed codes *)

\* C22: a string that JwtAuthorizer::authorize produced is always rejected by
\* JwtIssuer::recover_token, and a token that JwtIssuer::issue produced is
\* always rejected by JwtAuthorizer::extract.
C22_NotInterchangeable ==
    /\ (recovered.some /\ recovered.val.token \in codesOut) => recovered.val.res = Err
    /\ \A i \in DOMAIN extractLog :
          extractLog[i].code \in {r.token : r \in tokensOut} => extractLog[i].res = Err

\* C22 witness: a signed code was presented to recover_token while it had not
\* expired, and was rejected
C22_Witness ==
    /\ recovered.some
    /\ recovered.val.token \in codesOut
    /\ recovered.val.at < recovered.val.token.claims.exp
    /\ recovered.val.res = Err

\* C23: JwtAuthorizer::extract on a signed code that has not expired returns
\* the Grant of the code, every time it is called, and no row is written.
C23_ExtractRepeats ==
    /\ auth_grant = <<>> /\ auth_token = <<>>
    /\ \A i \in DOMAIN extractLog :
          (extractLog[i].code \in codesOut
              /\ extractLog[i].at <= extractLog[i].code.claims.exp) =>
             /\ extractLog[i].res.tag = "Ok"
             /\ extractLog[i].res.val.some
             /\ extractLog[i].res.val.val.owner_id = extractLog[i].code.claims.sub
             /\ extractLog[i].res.val.val.client_id = extractLog[i].code.claims.aud
             /\ \A j \in DOMAIN extractLog :
                   (extractLog[j].code = extractLog[i].code
                       /\ extractLog[j].at <= extractLog[j].code.claims.exp) =>
                      extractLog[j].res = extractLog[i].res

\* C23 witness: the same signed code was extracted at two different times within
\* its lifetime and returned a Grant both times
C23_Witness ==
    \E i, j \in DOMAIN extractLog :
        /\ i < j
        /\ extractLog[i].code \in codesOut
        /\ extractLog[j].code = extractLog[i].code
        /\ extractLog[i].at < extractLog[j].at
        /\ extractLog[j].at <= extractLog[j].code.claims.exp
        /\ extractLog[i].res.tag = "Ok" /\ extractLog[i].res.val.some
        /\ extractLog[j].res = extractLog[i].res

----------------------------------------------------------------------------
(* Claims about the rows of the relational strategy *)

\* the extract that a step completes, if the step completes one
ExtractReturned == Len(extractLog') = Len(extractLog) + 1
LastExtract == extractLog'[Len(extractLog')]

\* C24: no step removes a Grant row or changes anything of a row but its code;
\* an extract that finds no row leaves the table as it was, a successful one
\* clears the code and nothing else, and every Grant that extract has returned
\* still has a Grant row of its owner and client for DbIssuer::issue to find.
C24_OnlyCodeChanges ==
    [][/\ Len(auth_grant') >= Len(auth_grant)
       /\ \A i \in DOMAIN auth_grant :
             \/ auth_grant'[i] = auth_grant[i]
             \/ auth_grant'[i] = [auth_grant[i] EXCEPT !.code = None]
       /\ (ExtractReturned /\ ~LastExtract.res.some) => auth_grant' = auth_grant
       /\ (ExtractReturned /\ LastExtract.res.some) =>
             /\ Len(auth_grant') = Len(auth_grant)
             /\ \E i \in DOMAIN auth_grant :
                   /\ auth_grant[i].code = Some(LastExtract.code)
                   /\ auth_grant'[i] = [auth_grant[i] EXCEPT !.code = None]
                   /\ \A k \in DOMAIN auth_grant \ {i} : auth_grant'[k] = auth_grant[k]
       /\ \A i \in DOMAIN extractLog' :
             extractLog'[i].res.some =>
                LET g == extractLog'[i].res.val
                IN  /\ ParseI32(g.owner_id).tag = "Ok"
                    /\ \E k \in DOMAIN auth_grant' :
                          /\ auth_grant'[k].owner_id = ParseI32(g.owner_id).val
                          /\ auth_grant'[k].client_id = g.client_id
      ]_vars

\* C24 witness: a code was redeemed, an extract of an unknown or cleared code
\* returned nothing, and issue found the redeemed Grant's row, whose code is
\* cleared and whose other columns are those of the Grant
C24_Witness ==
    /\ \E i \in DOMAIN extractLog : ~extractLog[i].res.some
    /\ \E i \in DOMAIN extractLog, k \in DOMAIN auth_token :
          /\ extractLog[i].res.some
          /\ LET g == extractLog[i].res.val
                 row == auth_grant[auth_token[k].grant_id]
             IN  /\ row.code = None
                 /\ GrantOfRow(row, row.until) = g

\* C25: every Token row references an existing Grant row, and recover_token
\* returns a Grant only for a token string that DbIssuer::issue returned.
C25_TokensHaveGrants ==
    /\ \A k \in DOMAIN auth_token :
          \E i \in DOMAIN auth_grant : auth_grant[i].id = auth_token[k].grant_id
    /\ RecoveredGrant => recovered.val.token \in {r.token : r \in tokensOut}

\* C25 witness: recover_token returned the Grant of an issued token's row, and
\* a string that issue never returned was presented as well
C25_Witness ==
    /\ RecoveredGrant
    /\ recovered.val.token \in {r.token : r \in tokensOut}
    /\ \E k \in DOMAIN auth_token :
          /\ auth_token[k].token = recovered.val.token
          /\ recovered.val.res.val.val.client_id = auth_grant[auth_token[k].grant_id].client_id

====
